---- MODULE Spec2Model ----
(***************************************************************************)
(* Model of watchman/query/name.cpp: the `name` / `iname` query terms.     *)
(*                                                                         *)
(* A term is parsed by NameExpr::parse into a NameExpr node, which is then *)
(* evaluated against candidate files.  parse is modelled statement by      *)
(* statement (one action per check / loop iteration / assignment), and     *)
(* also as the operator `parse` that gives its final result; evaluate is   *)
(* modelled as the operator `evaluate` and, for concurrent workers, as two *)
(* steps per call.                                                         *)
(*                                                                         *)
(* Strings are sequences of one-character strings.  JSON values are        *)
(* records [type, s, a]: s is the value of a string, a the elements of an  *)
(* array.                                                                  *)
(***************************************************************************)
EXTENDS Naturals, Sequences, FiniteSets

\* ------------------------------------------------------------------ bounds

\* longest pattern string given as the single-string second element
MaxStrLen == 3
\* longest list given as the second element
MaxListLen == 2

\* ------------------------------------------------------------- characters

Chars == {"a", "A", "/", "\\"}

RECURSIVE StringsOfLen(_)
StringsOfLen(n) ==
  IF n = 0 THEN {<<>>}
  ELSE {Append(s, c) : s \in StringsOfLen(n - 1), c \in Chars}

Strings(n) == UNION {StringsOfLen(k) : k \in 0..n}

S_name == <<"n", "a", "m", "e">>
S_iname == <<"i", "n", "a", "m", "e">>
S_basename == <<"b", "a", "s", "e", "n", "a", "m", "e">>
S_wholename == <<"w", "h", "o", "l", "e", "n", "a", "m", "e">>
S_middle == <<"m", "i", "d", "d", "l", "e">>

\* ------------------------------------------------------------ JSON values

JString(str) == [type |-> "string", s |-> str, a |-> <<>>]
JInteger == [type |-> "integer", s |-> <<>>, a |-> <<>>]
JArray(elems) == [type |-> "array", s |-> <<>>, a |-> elems]

isArray(j) == j.type = "array"
isString(j) == j.type = "string"
json_array_size(j) == Len(j.a)
json_string_value(j) == j.s
json_to_w_string(j) == j.s

\* ---------------------------------------------------- w_string operations

\* one byte through tolower()
tolower(c) == IF c = "A" THEN "a" ELSE c

\* w_string_piece::asLowerCase
asLowerCase(str) == [i \in 1..Len(str) |-> tolower(str[i])]

\* w_string::normalizeSeparators: every separator becomes '/'
normalizeSeparators(str) ==
  [i \in 1..Len(str) |-> IF str[i] \in {"/", "\\"} THEN "/" ELSE str[i]]

\* w_string_equal_caseless: same length and bytewise equal under tolower()
w_string_equal_caseless(a, b) ==
  /\ Len(a) = Len(b)
  /\ \A i \in 1..Len(a) : tolower(a[i]) = tolower(b[i])

\* ------------------------------------------------------------------ types

CaseSensitive == "CaseSensitive"
CaseInSensitive == "CaseInSensitive"
CaseSensitivity == {CaseSensitive, CaseInSensitive}

\* a NameExpr; exists = FALSE before `new NameExpr`, hasName = FALSE while
\* the member `name` is still the default-constructed (null) w_string
NoNode ==
  [exists |-> FALSE, name |-> <<>>, hasName |-> FALSE, set |-> {},
   caseSensitive |-> CaseSensitive, wholename |-> FALSE]

NoError == [kind |-> "none", which |-> "", rule |-> ""]

QueryParseError(which, rule) ==
  [kind |-> "QueryParseError", which |-> which, rule |-> rule]

\* term.at(1) on an array of fewer than two elements: the range error of the
\* JSON array accessor.  It is not a QueryParseError and names no keyword.
OutOfRange == [kind |-> "out_of_range", which |-> "", rule |-> "index"]

\* ------------------------------------------------- NameExpr::parse, parts

\* the keyword put into every error message of parse
which(caseSensitive) ==
  IF caseSensitive = CaseInSensitive THEN "iname" ELSE "name"

\* faulty variant: the scope value is not validated
ScopeAnyString(scope) == TRUE

\* strcmp(scope, "basename") && strcmp(scope, "wholename") is false
ScopeValid(scope) == scope = S_basename \/ scope = S_wholename

\* faulty variant: list elements are not lower-cased
elementUnfolded(jele, caseSensitive) ==
  normalizeSeparators(json_to_w_string(jele))

\* the string one list element puts into the set
element(jele, caseSensitive) ==
  IF caseSensitive = CaseInSensitive
    THEN normalizeSeparators(asLowerCase(json_to_w_string(jele)))
    ELSE normalizeSeparators(json_to_w_string(jele))

\* the value the member `name` gets from a single-string pattern
LiteralOf(name) == normalizeSeparators(json_to_w_string(name))

\* new NameExpr(std::move(set), caseSensitive, !strcmp(scope, "wholename"))
NameExpr(set, caseSensitive, wholename) ==
  [exists |-> TRUE, name |-> <<>>, hasName |-> FALSE, set |-> set,
   caseSensitive |-> caseSensitive, wholename |-> wholename]

\* faulty variant: parseIName passes query->case_sensitive as parseName does
DispatchCaseFromQuery(spelling, query_case_sensitive) == query_case_sensitive

\* the CaseSensitivity parseName / parseIName hand to parse
DispatchCase(spelling, query_case_sensitive) ==
  IF spelling = "name" THEN query_case_sensitive ELSE CaseInSensitive

\* -------------------------------------------- NameExpr::parse, as a whole

Thrown(e) == [err |-> e, node |-> NoNode]
Returned(n) == [err |-> NoError, node |-> n]

parse(term, caseSensitive) ==
  LET w == which(caseSensitive) IN
  IF ~isArray(term) THEN Thrown(QueryParseError(w, "shape"))
  ELSE IF json_array_size(term) > 3 THEN Thrown(QueryParseError(w, "arity"))
  ELSE IF json_array_size(term) = 3 /\ ~isString(term.a[3])
    THEN Thrown(QueryParseError(w, "scope_type"))
  ELSE IF json_array_size(term) = 3 /\ ~ScopeValid(json_string_value(term.a[3]))
    THEN Thrown(QueryParseError(w, "scope_value"))
  ELSE IF json_array_size(term) < 2 THEN Thrown(OutOfRange)
  ELSE
    LET sc == IF json_array_size(term) = 3
                THEN json_string_value(term.a[3]) ELSE S_basename
        name == term.a[2]
    IN
    IF isArray(name) THEN
      IF \E i \in 1..Len(name.a) : ~isString(name.a[i])
        THEN Thrown(QueryParseError(w, "pattern_type"))
        ELSE Returned(NameExpr(
               {element(name.a[i], caseSensitive) : i \in 1..Len(name.a)},
               caseSensitive, sc = S_wholename))
    ELSE IF isString(name) THEN
      Returned([NameExpr({}, caseSensitive, sc = S_wholename)
                  EXCEPT !.name = LiteralOf(name), !.hasName = TRUE])
    ELSE Thrown(QueryParseError(w, "pattern_type"))

parseName(query_case_sensitive, term) ==
  parse(term, DispatchCase("name", query_case_sensitive))

parseIName(query_case_sensitive, term) ==
  parse(term, DispatchCase("iname", query_case_sensitive))

\* ---------------------------------------------------- NameExpr::evaluate

\* a w_string seen as a w_string_piece: the null w_string is the empty piece
piece(n) == IF n.hasName THEN n.name ELSE <<>>

\* faulty variant: the Set branch always looks up the basename
SetKeyBaseName(n, wholeName, baseName) ==
  IF n.caseSensitive = CaseInSensitive
    THEN asLowerCase(baseName) ELSE baseName

\* the string the Set branch looks up
SetKey(n, wholeName, baseName) ==
  IF n.wholename
    THEN IF n.caseSensitive = CaseInSensitive
           THEN asLowerCase(wholeName) ELSE wholeName
    ELSE IF n.caseSensitive = CaseInSensitive
           THEN asLowerCase(baseName) ELSE baseName

\* the string the Literal branch compares
LiteralKey(n, wholeName, baseName) ==
  IF n.wholename THEN wholeName ELSE baseName

\* faulty variant: the Literal branch always compares exactly
LiteralMatchExact(n, str) == str = piece(n)

\* the comparison of the Literal branch
LiteralMatch(n, str) ==
  IF n.caseSensitive = CaseInSensitive
    THEN w_string_equal_caseless(str, piece(n))
    ELSE str = piece(n)

evaluate(n, wholeName, baseName) ==
  IF n.set # {}
    THEN SetKey(n, wholeName, baseName) \in n.set
    ELSE LiteralMatch(n, LiteralKey(n, wholeName, baseName))

\* ----------------------------------------------------------------- inputs

\* the strings a list pattern is built from
ListStrings == {<<"a">>, <<"A">>, <<"a", "\\", "A">>}

ListElems == {JString(str) : str \in ListStrings} \cup {JInteger}

RECURSIVE ListsOfLen(_)
ListsOfLen(n) ==
  IF n = 0 THEN {<<>>}
  ELSE {Append(l, e) : l \in ListsOfLen(n - 1), e \in ListElems}

\* the second element of a term: a string, a list, or neither
PatternValues ==
  {JString(str) : str \in Strings(MaxStrLen)}
    \cup {JArray(l) : l \in UNION {ListsOfLen(k) : k \in 0..MaxListLen}}
    \cup {JInteger}

\* the third element of a term
ScopeValues ==
  {JString(S_basename), JString(S_wholename), JString(S_middle), JInteger}

Keyword(spelling) == JString(IF spelling = "name" THEN S_name ELSE S_iname)

\* the terms handed to the parser registered for `spelling`
Terms(spelling) ==
  LET kw == Keyword(spelling) IN
  {kw, JInteger, JArray(<<>>), JArray(<<kw>>)}
    \cup {JArray(<<kw, p>>) : p \in PatternValues}
    \cup {JArray(<<kw, p, sc>>) : p \in PatternValues, sc \in ScopeValues}
    \cup {JArray(<<kw, p, JString(S_basename), JString(<<"a">>)>>) :
            p \in PatternValues}

\* candidate files: the full relative path of the execution context and the
\* final path component of the file, both already separator-normalized
WholeNames ==
  {<<>>, <<"a">>, <<"A">>, <<"a", "/", "a">>, <<"a", "/", "A">>}
BaseNames == {<<"a">>, <<"A">>, <<"a", "a">>}

\* ------------------------------------------------------------------ state

VARIABLES
  query_case_sensitive, \* Query::case_sensitive of the query being compiled
  spelling,             \* the keyword whose registered parser runs
  term,                 \* the term handed to it
  pc,                   \* position in parseName / parseIName / parse
  caseSensitive,        \* parse's parameter
  scope,                \* parse's local `scope`
  pattern,              \* parse's local `pattern`: null or the string
  set,                  \* parse's local `set`
  idx,                  \* position of the running loop over name_array
  node,                 \* the NameExpr (data), once created
  err,                  \* the exception that left parse, if any
  call,                 \* the last evaluate call of the query runner
  wpc, wargs, wstr, wres \* the evaluate call each worker is in

parseVars ==
  <<query_case_sensitive, spelling, term, pc, caseSensitive, scope, pattern,
    set, idx, node, err>>
workerVars == <<wpc, wargs, wstr, wres>>
vars == <<parseVars, call, workerVars>>

Workers == {"w1", "w2"}

NullPattern == [isNull |-> TRUE, s |-> <<>>]
NoCall == [made |-> FALSE, wholeName |-> <<>>, baseName |-> <<>>,
           result |-> FALSE]
NoArgs == [wholeName |-> <<>>, baseName |-> <<>>]

Init ==
  /\ query_case_sensitive \in CaseSensitivity
  /\ spelling \in {"name", "iname"}
  /\ term \in Terms(spelling)
  /\ pc = "lookup"
  /\ caseSensitive = CaseSensitive
  /\ scope = S_basename
  /\ pattern = NullPattern
  /\ set = {}
  /\ idx = 0
  /\ node = NoNode
  /\ err = NoError
  /\ call = NoCall
  /\ wpc = [w \in Workers |-> "idle"]
  /\ wargs = [w \in Workers |-> NoArgs]
  /\ wstr = [w \in Workers |-> <<>>]
  /\ wres = [w \in Workers |-> "none"]

\* ------------------------------------------ NameExpr::parse, step by step

Throw(e) ==
  /\ err' = e
  /\ pc' = "failed"

\* parseName / parseIName: enter parse with the CaseSensitivity of the
\* spelling; parse then initialises its locals
parseTerm ==
  /\ pc = "lookup"
  /\ caseSensitive' = DispatchCase(spelling, query_case_sensitive)
  /\ scope' = S_basename
  /\ pattern' = NullPattern
  /\ set' = {}
  /\ pc' = "isArray"
  /\ UNCHANGED <<query_case_sensitive, spelling, term, idx, node, err>>
  /\ UNCHANGED <<call, workerVars>>

\* if (!term.isArray()) throw
CheckArray ==
  /\ pc = "isArray"
  /\ IF ~isArray(term)
       THEN Throw(QueryParseError(which(caseSensitive), "shape"))
       ELSE pc' = "size" /\ UNCHANGED err
  /\ UNCHANGED <<query_case_sensitive, spelling, term, caseSensitive, scope,
                 pattern, set, idx, node>>
  /\ UNCHANGED <<call, workerVars>>

\* if (json_array_size(term) > 3) throw
CheckSize ==
  /\ pc = "size"
  /\ IF json_array_size(term) > 3
       THEN Throw(QueryParseError(which(caseSensitive), "arity"))
       ELSE pc' = "scope" /\ UNCHANGED err
  /\ UNCHANGED <<query_case_sensitive, spelling, term, caseSensitive, scope,
                 pattern, set, idx, node>>
  /\ UNCHANGED <<call, workerVars>>

\* if (json_array_size(term) == 3) { ... scope = json_string_value(jscope) }
CheckScope ==
  /\ pc = "scope"
  /\ IF json_array_size(term) = 3
       THEN IF ~isString(term.a[3])
              THEN /\ Throw(QueryParseError(which(caseSensitive), "scope_type"))
                   /\ UNCHANGED scope
              ELSE /\ scope' = json_string_value(term.a[3])
                   /\ IF ~ScopeValid(scope')
                        THEN Throw(QueryParseError(which(caseSensitive),
                                                   "scope_value"))
                        ELSE pc' = "at1" /\ UNCHANGED err
       ELSE pc' = "at1" /\ UNCHANGED <<scope, err>>
  /\ UNCHANGED <<query_case_sensitive, spelling, term, caseSensitive,
                 pattern, set, idx, node>>
  /\ UNCHANGED <<call, workerVars>>

\* const auto& name = term.at(1), and the branch on its type
At1 ==
  /\ pc = "at1"
  /\ IF json_array_size(term) < 2
       THEN Throw(OutOfRange) /\ UNCHANGED <<pattern, idx>>
       ELSE LET name == term.a[2] IN
            IF isArray(name)
              THEN pc' = "validate" /\ idx' = 1 /\ UNCHANGED <<pattern, err>>
            ELSE IF isString(name)
              THEN /\ pattern' = [isNull |-> FALSE,
                                  s |-> json_string_value(name)]
                   /\ pc' = "construct"
                   /\ UNCHANGED <<idx, err>>
            ELSE /\ Throw(QueryParseError(which(caseSensitive),
                                          "pattern_type"))
                 /\ UNCHANGED <<pattern, idx>>
  /\ UNCHANGED <<query_case_sensitive, spelling, term, caseSensitive, scope,
                 set, node>>
  /\ UNCHANGED <<call, workerVars>>

\* faulty variant: one loop that validates and inserts element by element
ValidateAndInsert ==
  /\ pc = "validate"
  /\ LET name_array == term.a[2].a IN
     IF idx > Len(name_array)
       THEN pc' = "insert" /\ idx' = 1 /\ UNCHANGED <<set, err>>
     ELSE IF ~isString(name_array[idx])
       THEN /\ Throw(QueryParseError(which(caseSensitive), "pattern_type"))
            /\ UNCHANGED <<set, idx>>
     ELSE /\ set' = set \cup {element(name_array[idx], caseSensitive)}
          /\ idx' = idx + 1
          /\ UNCHANGED <<pc, err>>
  /\ UNCHANGED <<query_case_sensitive, spelling, term, caseSensitive, scope,
                 pattern, node>>
  /\ UNCHANGED <<call, workerVars>>

\* one iteration of: for (ele : name_array) if (!ele.isString()) throw
ValidateElement ==
  /\ pc = "validate"
  /\ LET name_array == term.a[2].a IN
     IF idx > Len(name_array)
       THEN pc' = "insert" /\ idx' = 1 /\ UNCHANGED err
     ELSE IF ~isString(name_array[idx])
       THEN /\ Throw(QueryParseError(which(caseSensitive), "pattern_type"))
            /\ UNCHANGED idx
     ELSE idx' = idx + 1 /\ UNCHANGED <<pc, err>>
  /\ UNCHANGED <<query_case_sensitive, spelling, term, caseSensitive, scope,
                 pattern, set, node>>
  /\ UNCHANGED <<call, workerVars>>

\* one iteration of: for (jele : name_array) set.insert(element)
InsertElement ==
  /\ pc = "insert"
  /\ LET name_array == term.a[2].a IN
     IF idx > Len(name_array)
       THEN pc' = "construct" /\ UNCHANGED <<set, idx>>
       ELSE /\ set' = set \cup {element(name_array[idx], caseSensitive)}
            /\ idx' = idx + 1
            /\ UNCHANGED pc
  /\ UNCHANGED <<query_case_sensitive, spelling, term, caseSensitive, scope,
                 pattern, node, err>>
  /\ UNCHANGED <<call, workerVars>>

\* auto data = new NameExpr(std::move(set), ...): the local set is moved from
Construct ==
  /\ pc = "construct"
  /\ node' = NameExpr(set, caseSensitive, scope = S_wholename)
  /\ set' = {}
  /\ pc' = "setName"
  /\ UNCHANGED <<query_case_sensitive, spelling, term, caseSensitive, scope,
                 pattern, idx, err>>
  /\ UNCHANGED <<call, workerVars>>

\* if (pattern) data->name = ...; return data
SetName ==
  /\ pc = "setName"
  /\ IF ~pattern.isNull
       THEN node' = [node EXCEPT !.name = LiteralOf(term.a[2]),
                                 !.hasName = TRUE]
       ELSE UNCHANGED node
  /\ pc' = "done"
  /\ UNCHANGED <<query_case_sensitive, spelling, term, caseSensitive, scope,
                 pattern, set, idx, err>>
  /\ UNCHANGED <<call, workerVars>>

ParseStep ==
  \/ parseTerm
  \/ CheckArray
  \/ CheckSize
  \/ CheckScope
  \/ At1
  \/ ValidateElement
  \/ InsertElement
  \/ Construct
  \/ SetName

\* compilation of one term
SpecParse == Init /\ [][ParseStep]_vars

\* ------------------------------------------- evaluation of a compiled node

\* bool converted to EvaluateResult: a value is always present
EvaluateResult(matched) == IF matched THEN "match" ELSE "no_match"

\* the query runner evaluates the node on one candidate file
Evaluate ==
  /\ pc = "done"
  /\ \E wholeName \in WholeNames, baseName \in BaseNames :
       call' = [made |-> TRUE, wholeName |-> wholeName,
                baseName |-> baseName,
                result |-> evaluate(node, wholeName, baseName)]
  /\ UNCHANGED <<parseVars, workerVars>>

\* compilation of one term, then evaluation on candidate files
SpecEval == Init /\ [][ParseStep \/ Evaluate]_vars

\* the candidates of the concurrent workers
ConcWholeNames == {<<"a">>, <<"a", "/", "A">>}
ConcBaseNames == {<<"a">>, <<"A">>}

\* faulty variant: evaluate keeps the string it picked in the member `name`
EvalSelectCaching(w) ==
  /\ pc = "done"
  /\ wpc[w] \in {"idle", "returned"}
  /\ \E wholeName \in ConcWholeNames, baseName \in ConcBaseNames :
       /\ wargs' = [wargs EXCEPT
                      ![w] = [wholeName |-> wholeName, baseName |-> baseName]]
       /\ IF node.set # {}
            THEN /\ wstr' = [wstr EXCEPT
                               ![w] = SetKey(node, wholeName, baseName)]
                 /\ wpc' = [wpc EXCEPT ![w] = "find"]
            ELSE /\ wstr' = [wstr EXCEPT
                               ![w] = LiteralKey(node, wholeName, baseName)]
                 /\ wpc' = [wpc EXCEPT ![w] = "compare"]
       /\ node' = [node EXCEPT !.name = wstr'[w], !.hasName = TRUE]
  /\ wres' = [wres EXCEPT ![w] = "none"]
  /\ UNCHANGED <<query_case_sensitive, spelling, term, pc, caseSensitive,
                 scope, pattern, set, idx, err, call>>

\* first half of evaluate: branch on set.empty() and pick the string
EvalSelect(w) ==
  /\ pc = "done"
  /\ wpc[w] \in {"idle", "returned"}
  /\ \E wholeName \in ConcWholeNames, baseName \in ConcBaseNames :
       /\ wargs' = [wargs EXCEPT
                      ![w] = [wholeName |-> wholeName, baseName |-> baseName]]
       /\ IF node.set # {}
            THEN /\ wstr' = [wstr EXCEPT
                               ![w] = SetKey(node, wholeName, baseName)]
                 /\ wpc' = [wpc EXCEPT ![w] = "find"]
            ELSE /\ wstr' = [wstr EXCEPT
                               ![w] = LiteralKey(node, wholeName, baseName)]
                 /\ wpc' = [wpc EXCEPT ![w] = "compare"]
  /\ wres' = [wres EXCEPT ![w] = "none"]
  /\ UNCHANGED <<parseVars, call>>

\* second half of evaluate: set.find(str) or the comparison with name
EvalReturn(w) ==
  /\ wpc[w] \in {"find", "compare"}
  /\ wres' = [wres EXCEPT
                ![w] = IF wpc[w] = "find"
                         THEN EvaluateResult(wstr[w] \in node.set)
                         ELSE EvaluateResult(LiteralMatch(node, wstr[w]))]
  /\ wpc' = [wpc EXCEPT ![w] = "returned"]
  /\ UNCHANGED <<parseVars, call, wargs, wstr>>

WorkerStep == \E w \in Workers : EvalSelect(w) \/ EvalReturn(w)

\* compilation of one term, then workers evaluating the node concurrently
SpecConc == Init /\ [][ParseStep \/ WorkerStep]_vars

\* ---------------------------------------------------------- consistency

\* the statement-by-statement rendering of parse ends as the operator says
ParseAgrees ==
  /\ pc = "done" => Returned(node) = parse(term, caseSensitive)
  /\ pc = "failed" =>
       (Thrown(err) = parse(term, caseSensitive) /\ ~node.exists)

TypeOK ==
  /\ pc \in {"lookup", "isArray", "size", "scope", "at1", "validate",
              "insert", "construct", "setName", "done", "failed"}
  /\ (pc = "failed") = (err.kind # "none")
  /\ node.exists = (pc \in {"setName", "done"})
  /\ \A w \in Workers :
       /\ wpc[w] \in {"idle", "find", "compare", "returned"}
       /\ wres[w] \in {"none", "match", "no_match"}

\* -------------------------------------------------- vocabulary of claims

Terminated == pc \in {"done", "failed"}

HasPattern == isArray(term) /\ json_array_size(term) >= 2
StringPattern == HasPattern /\ isString(term.a[2])
ListPattern == HasPattern /\ isArray(term.a[2])

\* the strings of a list pattern
ListOf(j) == {j.a[i].s : i \in 1..Len(j.a)}

fold(str) == asLowerCase(str)
normalize(str) == normalizeSeparators(str)

\* a pattern string as the specification stores it: separators
\* canonicalized, then folded iff the node is insensitive
Normalized(cs, str) ==
  IF cs = CaseInSensitive THEN fold(normalize(str)) ELSE normalize(str)

\* the string of the last call that the scope of the node selects
Selected(n, c) == IF n.wholename THEN c.wholeName ELSE c.baseName

\* the term with its single-string pattern p replaced by the list [p]
AsList(t) == [t EXCEPT !.a = [t.a EXCEPT ![2] = JArray(<<t.a[2]>>)]]

\* --------------------------------------------------------------- C1

\* C1 as stated: a node compiled from a `name` term is case-sensitive and a
\* node compiled from an `iname` term is case-insensitive, whatever the
\* query: a Basename literal node of a `name` term does not match a basename
\* that differs from its pattern only in letter case.
C1_SpellingAlone ==
  (pc = "done" /\ call.made /\ StringPattern /\ ~node.wholename
     /\ call.baseName # term.a[2].s
     /\ fold(call.baseName) = fold(term.a[2].s))
    => (call.result = (spelling = "iname"))

\* C1 (amended): an `iname` node is always case-insensitive; a `name` node
\* has the case mode of the query (Query::case_sensitive); the mode depends
\* on nothing else.  A Basename literal node matches a basename equal to its
\* pattern p; a case-sensitive one does not match a basename that differs
\* from p only in letter case, a case-insensitive one does.
C1_CaseMode ==
  pc = "done" =>
    /\ node.caseSensitive =
         (IF spelling = "iname" THEN CaseInSensitive
                                ELSE query_case_sensitive)
    /\ (call.made /\ StringPattern /\ ~node.wholename) =>
         LET p == term.a[2].s
             c == call.baseName
         IN
         /\ c = p => call.result
         /\ (node.caseSensitive = CaseSensitive /\ c # p /\ fold(c) = fold(p))
              => ~call.result
         /\ (node.caseSensitive = CaseInSensitive /\ fold(c) = fold(p))
              => call.result

C1_Witness ==
  /\ pc = "done"
  /\ spelling = "name"
  /\ query_case_sensitive = CaseInSensitive
  /\ StringPattern
  /\ term.a[2].s = <<"a">>
  /\ call.made
  /\ call.baseName = <<"A">>
  /\ ~node.wholename
  /\ call.result

\* --------------------------------------------------------------- C2

\* C2: parse ends in a QueryParseError, with no node, for every term that is
\* not a list and for every list whose length is not 2 or 3.
C2_ArityRejected ==
  (Terminated /\ (~isArray(term) \/ json_array_size(term) \notin {2, 3}))
    => (pc = "failed" /\ err.kind = "QueryParseError" /\ ~node.exists)

\* --------------------------------------------------------------- C3

\* C3: whenever parse fails, the error names the keyword of the term that
\* was being parsed.
C3_ErrorNamesKeyword ==
  pc = "failed" => err.which = spelling

\* --------------------------------------------------------------- C4

\* C4 as stated: after a successful parse the stored literal and every
\* stored set element are separator-canonicalized and, iff the node is
\* insensitive, case-folded.
C4_StoredFolded ==
  pc = "done" =>
    /\ StringPattern =>
         node.name = Normalized(node.caseSensitive, term.a[2].s)
    /\ ListPattern =>
         node.set = {Normalized(node.caseSensitive, x) : x \in ListOf(term.a[2])}

\* C4 (amended): after a successful parse the stored set is exactly the set
\* of the list elements, each separator-canonicalized and, iff the node is
\* insensitive, case-folded; the stored literal is the pattern string
\* separator-canonicalized only, in both case modes.
C4_StoredNormalized ==
  pc = "done" =>
    /\ StringPattern =>
         /\ node.hasName
         /\ node.name = normalize(term.a[2].s)
         /\ node.set = {}
    /\ ListPattern =>
         /\ ~node.hasName
         /\ node.set =
              {Normalized(node.caseSensitive, x) : x \in ListOf(term.a[2])}

C4_Witness ==
  /\ pc = "done"
  /\ node.caseSensitive = CaseInSensitive
  /\ ListPattern
  /\ <<"a", "\\", "A">> \in ListOf(term.a[2])
  /\ <<"a", "/", "a">> \in node.set

\* --------------------------------------------------------------- C5

\* C5: with a third element, parse succeeds only if it is the string
\* "basename" or "wholename", and fails with a QueryParseError otherwise; the
\* node has Wholename scope exactly when the third element is "wholename",
\* and Basename scope when it is "basename" or absent.
C5_Scope ==
  (Terminated /\ isArray(term)) =>
    /\ (json_array_size(term) = 3
          /\ term.a[3] \notin {JString(S_basename), JString(S_wholename)})
         => (pc = "failed" /\ err.kind = "QueryParseError")
    /\ pc = "done" =>
         node.wholename =
           (json_array_size(term) = 3 /\ term.a[3] = JString(S_wholename))

C5_Witness ==
  /\ pc = "done"
  /\ json_array_size(term) = 3
  /\ term.a[3] = JString(S_wholename)
  /\ node.wholename

\* --------------------------------------------------------------- C6

\* C6: parse fails when the second element is neither a string nor a list,
\* and when it is a list with a non-string element at any position; whenever
\* parse has failed, no node exists and nothing was inserted into the set.
C6_NoPartialConstruction ==
  /\ (Terminated /\ HasPattern /\ ~isString(term.a[2]) /\ ~isArray(term.a[2]))
       => pc = "failed"
  /\ (Terminated /\ ListPattern
        /\ \E i \in 1..Len(term.a[2].a) : ~isString(term.a[2].a[i]))
       => pc = "failed"
  /\ (pc = "failed" \/ err.kind # "none") => (~node.exists /\ set = {})

C6_Witness ==
  /\ pc = "failed"
  /\ err = QueryParseError(which(caseSensitive), "pattern_type")
  /\ ListPattern
  /\ Len(term.a[2].a) = 2
  /\ isString(term.a[2].a[1])
  /\ ~isString(term.a[2].a[2])

\* --------------------------------------------------------------- C7

\* C7: a Wholename node decides from the full relative path alone and a
\* Basename node from the final path component alone: the call just made
\* gives the same result with any other value of the string not selected.
C7_SelectedStringOnly ==
  (pc = "done" /\ call.made) =>
    IF node.wholename
      THEN \A b \in BaseNames :
             evaluate(node, call.wholeName, b) = call.result
      ELSE \A w \in WholeNames :
             evaluate(node, w, call.baseName) = call.result

C7_Witness ==
  /\ pc = "done"
  /\ call.made
  /\ node.wholename
  /\ node.set # {}
  /\ node.caseSensitive = CaseInSensitive
  /\ call.wholeName = <<"a", "/", "A">>
  /\ call.baseName = <<"a">>
  /\ call.result

\* --------------------------------------------------------------- C8

\* C8: the node parsed from the single string p and the node parsed from
\* the list [p] give the same result on the candidate of the call just made;
\* in insensitive mode the result is match iff
\* fold(c) = fold(normalize(p)) for the selected string c.
C8_LiteralSetAgree ==
  (pc = "done" /\ call.made /\ StringPattern) =>
    LET p == term.a[2].s
        sibling == parse(AsList(term), caseSensitive)
    IN
    /\ sibling.err = NoError
    /\ sibling.node.set # {}
    /\ evaluate(sibling.node, call.wholeName, call.baseName) = call.result
    /\ node.caseSensitive = CaseInSensitive =>
         call.result = (fold(Selected(node, call)) = fold(normalize(p)))

C8_Witness ==
  /\ pc = "done"
  /\ call.made
  /\ StringPattern
  /\ node.caseSensitive = CaseInSensitive
  /\ node.wholename
  /\ term.a[2].s = <<"A", "\\", "a">>
  /\ call.wholeName = <<"a", "/", "A">>
  /\ call.result

\* --------------------------------------------------------------- C9

C10_ReadOnlyEvaluate ==
  /\ [][pc = "done" => node' = node]_vars
  /\ [](\A w \in Workers :
          wpc[w] = "returned" =>
            /\ wres[w] \in {"match", "no_match"}
            /\ wres[w] = EvaluateResult(
                 evaluate(node, wargs[w].wholeName, wargs[w].baseName)))

C10_Witness ==
  /\ pc = "done"
  /\ wpc["w1"] = "returned"
  /\ wres["w1"] = "match"
  /\ wpc["w2"] \in {"find", "compare"}
  /\ wargs["w1"] # wargs["w2"]

====
